---- MODULE Spec2Model ----
(***************************************************************************)
(* Model of elementium's retry/backoff waiters (elementium/waiters.py):    *)
(* Waiter._check_args, ExceptionRetryWaiter.wait,                          *)
(* ExceptionRetryElementsWaiter.wait and ConditionElementsWaiter.wait,     *)
(* together with the part of the bound Elements collection they touch      *)
(* (its items, its truth value and update()).                              *)
(*                                                                         *)
(* Time is counted in ticks of an abstract clock (time.time()).  The clock *)
(* advances while the operation or predicate runs, while the collection is *)
(* refreshed and during time.sleep(); it does not advance between two      *)
(* consecutive statements of wait itself.                                  *)
(***************************************************************************)
EXTENDS Integers, Sequences, FiniteSets, TLC

\* ---- bounds of the model ----
MaxN == 2
MaxTtl == 2
MaxPause == 1
MaxDur == 1
MaxCalls == 3

\* ---- values ----
\* Python's None, as passed for an absent n or ttl argument.
NoneArg == -1000

\* The failure kinds an operation may raise.
Kinds == {"TypeError", "ValueError", "WebDriverException"}

\* The sets of recognized kinds the waiters are constructed with
\* (self.exceptions).
ExceptionSets == {{"TypeError"}, {"TypeError", "ValueError"}}

\* DEFAULT_SLEEP_TIME (0.25 s) and DEFAULT_TTL (20 s) in ticks of 0.25 s.
DEFAULT_SLEEP_TIME == 1
DEFAULT_TTL == 80

\* The values written into self.n and self.ttl of a waiter after its
\* construction, around the checks of the constructor.
OverrideValues == {-1}

\* The values an operation may return.
Values == {"v1", "v2"}

\* The values a predicate may return (their truth value).
Truth == {"True", "False"}

\* The reference to the collection the waiter is bound to (self.elements).
ElementsRef == "elements"

\* The time a refresh of the collection takes inside a waiter: none or the
\* longest.
UpdateDurations == {0, MaxDur}

\* The possible results of evaluating the collection's resolver for a waiter:
\* no node or one (a waiter only tests whether there are any).
Snapshots == {<< >>, <<"node">>}

WaiterKinds == {"ExceptionRetryWaiter", "ExceptionRetryElementsWaiter",
                "ConditionElementsWaiter"}

Min(a, b) == IF a <= b THEN a ELSE b

\* Python truth value of a number (None is false).
Truthy(x) == x # 0 /\ x # NoneArg

Return(v) == [type |-> "return", val |-> v]
Raise(e) == [type |-> "raise", val |-> e]
NoResult == [type |-> "none", val |-> "none"]

VARIABLES
    kind,          \* class of the constructed waiter, "none" before construction
    self_n,        \* self.n
    self_ttl,      \* self.ttl
    self_pause,    \* self.pause
    exceptions,    \* self.exceptions
    items,         \* self.elements.items
    pc,            \* position inside wait
    n,             \* local n of wait
    ttl,           \* local ttl of wait
    etime,         \* local etime of wait
    pause,         \* local pause of wait
    exc,           \* the exception bound by the except clause
    exc_from_run,  \* local exc_from_run of ExceptionRetryElementsWaiter.wait
    now,           \* time.time()
    \* observations of the call
    arg_n,         \* the n wait was called with
    arg_ttl,       \* the ttl wait was called with
    budget,        \* what _check_args returned
    start,         \* the clock when wait was called
    outs,          \* what each invocation of fn did, in order
    sleeps,        \* the arguments of the time.sleep calls, in order
    updates,       \* number of calls of self.elements.update()
    log,           \* the calls of fn, time.sleep and update in order, with the
                   \* clock at the end of each
    result,        \* how wait ended
    detail,        \* the (n, ttl) a RuntimeError of wait carries
    entry,         \* how the waiter came about: "ctor", "override", "retried"
    ctor,          \* the (n, ttl, pause) a constructor rejected
    ret_args,      \* the arguments and collection of the call of retried
    \* a tree of collections over a live document
    colls,         \* the collections built so far, the root first
    dom,           \* what the driver currently finds under each node
    cfg_ttl,       \* config['ttl'] of the config the collections share
    cfg_lazy,      \* config['lazy'] of that config
    cfg_given,     \* the ttl last given for the config, at construction or set
    lastOp,        \* the last operation on a collection and what it did
    \* whole calls of the operations of a collection
    op             \* the last call: its arguments, what it did, its result

vars == <<kind, self_n, self_ttl, self_pause, exceptions, items, pc, n, ttl,
          etime, pause, exc, exc_from_run, now, arg_n, arg_ttl, budget, start,
          outs, sleeps, updates, log, result, detail, entry, ctor, ret_args,
          colls, dom, cfg_ttl, cfg_lazy, cfg_given, lastOp, op>>

waiterVars == <<kind, self_n, self_ttl, self_pause, exceptions>>
argVars == <<arg_n, arg_ttl, budget, start>>
entryVars == <<entry, ctor, ret_args>>
elemVars == <<colls, dom, cfg_ttl, cfg_lazy, cfg_given, lastOp>>
opVars == <<op>>
runVars == <<kind, self_n, self_ttl, self_pause, exceptions, items, pc, n, ttl,
             etime, pause, exc, exc_from_run, now, arg_n, arg_ttl, budget,
             start, outs, sleeps, updates, log, result, detail, entry, ctor,
             ret_args>>

\* ---- Waiter.__init__ ----
\* Slip: Waiter.__init__ without the test of pause.
WaiterInitErrorNoPauseTest(n0, ttl0, pause0) ==
    IF Truthy(n0) /\ Truthy(ttl0) THEN "ValueError"
    ELSE IF n0 < 0 THEN "ValueError"
    ELSE IF Truthy(ttl0) /\ ttl0 < 0 THEN "ValueError"
    ELSE "none"

\* The error Waiter.__init__ raises for (n, ttl, pause), "none" if it accepts.
WaiterInitError(n0, ttl0, pause0) ==
    IF Truthy(n0) /\ Truthy(ttl0) THEN "ValueError"
    ELSE IF n0 < 0 THEN "ValueError"
    ELSE IF Truthy(ttl0) /\ ttl0 < 0 THEN "ValueError"
    ELSE IF Truthy(pause0) /\ pause0 < 0 THEN "ValueError"
    ELSE "none"

\* ---- Waiter._check_args ----
\* [err, n, ttl]: err is "ValueError" when _check_args raises.
CheckOk(a, b) == [err |-> "none", n |-> a, ttl |-> b]
CheckErr == [err |-> "ValueError", n |-> 0, ttl |-> 0]

\* Slip: _check_args without the fall back to self.n, self.ttl.
check_args_no_fallback(sn, sttl, n0, ttl0) ==
    IF n0 # NoneArg /\ n0 < 0 THEN CheckErr
    ELSE LET n1 == IF n0 # NoneArg THEN n0 ELSE 0 IN
         IF ttl0 # NoneArg /\ ttl0 < 0 THEN CheckErr
         ELSE LET ttl1 == IF ttl0 # NoneArg THEN ttl0 ELSE 0 IN
              IF Truthy(n1) /\ Truthy(ttl1) THEN CheckErr
              ELSE IF ~Truthy(n1) /\ ~Truthy(ttl1) THEN CheckErr
              ELSE CheckOk(n1, ttl1)

\* Slip: _check_args without the test for a negative ttl.
check_args_no_ttl_test(sn, sttl, n0, ttl0) ==
    IF n0 # NoneArg /\ n0 < 0 THEN CheckErr
    ELSE LET n1 == IF n0 # NoneArg THEN n0 ELSE 0
             ttl1 == IF ttl0 # NoneArg THEN ttl0 ELSE 0 IN
         IF Truthy(n1) /\ Truthy(ttl1) THEN CheckErr
         ELSE IF ~Truthy(n1) /\ ~Truthy(ttl1)
              THEN IF Truthy(sn) \/ Truthy(sttl)
                   THEN CheckOk(sn, sttl)
                   ELSE CheckErr
              ELSE CheckOk(n1, ttl1)

check_args(sn, sttl, n0, ttl0) ==
    IF n0 # NoneArg /\ n0 < 0 THEN CheckErr
    ELSE LET n1 == IF n0 # NoneArg THEN n0 ELSE 0 IN
         IF ttl0 # NoneArg /\ ttl0 < 0 THEN CheckErr
         ELSE LET ttl1 == IF ttl0 # NoneArg THEN ttl0 ELSE 0 IN
              IF Truthy(n1) /\ Truthy(ttl1) THEN CheckErr
              ELSE IF ~Truthy(n1) /\ ~Truthy(ttl1)
                   THEN IF Truthy(sn) \/ Truthy(sttl)
                        THEN CheckOk(sn, sttl)
                        ELSE CheckErr
                   ELSE CheckOk(n1, ttl1)

\* Slip: the pause lost after the first sleep.
NextPauseLost(p) == Min(p - p, p * 4)

\* pause = min(pause + pause, pause * 4)
NextPause(p) == Min(p + p, p * 4)

\* Slips of the loop condition: an off-by-one on n, and "and" for "or".
RemainingOffByOne(t, e, k) == t < e \/ k >= 0
RemainingBoth(t, e, k) == t < e /\ k > 0
\* Slip: the deadline tested one tick early.
RemainingEarly(t, e, k) == t + 1 < e \/ k > 0

\* The loop condition of the waiters: time.time() < etime or n > 0
Remaining(t, e, k) == t < e \/ k > 0

\* bool(self.elements): Elements.__len__ is len(self.items)
ElementsTruthy(its) == Len(its) > 0

\* Slip: the deadline without the budget.
EndTimeNoTtl(t, budgetTtl) == t

\* etime = time.time() + ttl
EndTime(t, budgetTtl) == t + budgetTtl

\* Slip: a bare except.
HandledAny(excs, o) == o.type = "raise"

\* except self.exceptions: whether the except clause takes what fn did
Handled(excs, o) == o.type = "raise" /\ o.val \in excs

\* Slips: every waiter returning self.elements, every waiter returning what
\* fn returned.
WaitResultElements(k, o) == Return(ElementsRef)
WaitResultFn(k, o) == o

\* What wait returns when fn returned o: the exception waiters return fn's
\* result, ConditionElementsWaiter returns self.elements.
WaitResult(k, o) ==
    IF k = "ConditionElementsWaiter" THEN Return(ElementsRef) ELSE o

\* Slip: keeping the first captured exception.
CapturedExcFirst(prev, e) == IF prev = "none" THEN e ELSE prev

\* exc_from_run = exc
CapturedExc(prev, e) == e

\* Slip: ConditionElementsWaiter refreshing under "if self.elements:" too.
ShouldUpdateIfTruthy(k, its) == ElementsTruthy(its)

\* Whether the waiter refreshes the collection after a failed attempt:
\* ExceptionRetryElementsWaiter under "if self.elements:",
\* ConditionElementsWaiter unconditionally.
ShouldUpdate(k, its) == k = "ConditionElementsWaiter" \/ ElementsTruthy(its)

\* What update may raise while a waiter refreshes its collection: IndexError
\* (get's resolver, the parent having shrunk) or a kind the waiter recognizes.
UpdateFailures == {"IndexError", "TypeError"}

\* Slip: the refresh inside the try, its recognized failures retried.
UpdateFailureEndsUnlessHandled(excs, e) == e \notin excs

\* Whether a failure of update ends wait: update is called in the except
\* clause, where nothing catches what it raises.
UpdateFailureEnds(excs, e) == TRUE

\* An entry of the event log: what happened and the clock when it ended.
Event(e, t) == [ev |-> e, at |-> t]

\* The values the collection's config may hold as its ttl when retried reads
\* it: absent, zero, a small budget or the default.
CfgTtls == {NoneArg, DEFAULT_TTL} \cup (0..MaxTtl)

\* SeElements.retried: ttl = ttl if ttl is not None else self.ttl
RetriedTtl(t, c) == IF t # NoneArg THEN t ELSE c

\* Slip: "if ttl is not None:" for "if ttl:".
RetriedWaiterNotNone(upd, rttl) ==
    IF rttl # NoneArg
    THEN IF upd THEN "ExceptionRetryElementsWaiter" ELSE "ExceptionRetryWaiter"
    ELSE "none"

\* Slip: the update flag ignored.
RetriedWaiterAlwaysUpdate(upd, rttl) ==
    IF Truthy(rttl) THEN "ExceptionRetryElementsWaiter" ELSE "none"

\* SeElements.retried: the waiter the operation is run through, "none" when
\* it is called directly.
RetriedWaiter(upd, rttl) ==
    IF Truthy(rttl)
    THEN IF upd THEN "ExceptionRetryElementsWaiter" ELSE "ExceptionRetryWaiter"
    ELSE "none"

NoRetried == [update |-> FALSE, ttl |-> NoneArg, cfg |-> NoneArg,
              items |-> << >>]

\* Slip: no distinction of the waiter that never ran.
ExhaustedResultNoNeverRan(k, efr) ==
    IF k = "ConditionElementsWaiter" \/ efr = "none"
    THEN Raise("TimeOutError")
    ELSE Raise(efr)

\* The else clause of the elements waiters' loops: TimeOutError in
\* ConditionElementsWaiter.wait; in ExceptionRetryElementsWaiter.wait the last
\* captured failure, or RuntimeError("Waiter was never run ...") without one.
ExhaustedResult(k, efr) ==
    IF k = "ConditionElementsWaiter" THEN Raise("TimeOutError")
    ELSE IF efr # "none" THEN Raise(efr)
    ELSE Raise("RuntimeError")

\* ---- the collections (Elements, SeElements) ----
MaxColls == 3
\* The longest schedule of attempts a call of an operation of a collection
\* is run against.
MaxSched == 4
\* The most items of the collection an operation is called on.
MaxLen == 3

\* The indices given to get, and the ttl values given to a config.
Indices == {0, 1}
ConfigTtls == {NoneArg, 0, 1}

\* Node handles: the browser itself and two elements of the page.
Nodes == {"browser", "a", "b"}

\* The states of the live document: what the driver finds under each node.
DomSet ==
    {[x \in Nodes |-> IF x = "browser" THEN top ELSE IF x = "a" THEN <<"b">>
                      ELSE << >>] :
        top \in {<< >>, <<"a">>, <<"a", "b">>}}

\* Index i is within the items its of a list.
InRangeOf(i, its) == i + 1 \in 1..Len(its)

\* The resolvers (fn) of the collections: the root's lambda, get's lambda and
\* the callback of a query.
RootFn == [op |-> "root", i |-> 0]
GetFn(i) == [op |-> "get", i |-> i]
FindFn == [op |-> "find", i |-> 0]

Resolved(its) == [err |-> "none", items |-> its]
ResolveError(e) == [err |-> e, items |-> << >>]

\* Slip: an index out of range giving no item (as a slice would).
GetResolveSlice(ctxItems, i) ==
    IF i + 1 \in 1..Len(ctxItems) THEN Resolved(<<ctxItems[i + 1]>>)
    ELSE Resolved(<< >>)

\* get's resolver: lambda context: [context.items[i]]
GetResolve(ctxItems, i) ==
    IF i + 1 \in 1..Len(ctxItems) THEN Resolved(<<ctxItems[i + 1]>>)
    ELSE ResolveError("IndexError")

\* [item for sublist in results for item in sublist]
RECURSIVE Flatten(_)
Flatten(ss) == IF ss = << >> THEN << >> ELSE Head(ss) \o Flatten(Tail(ss))

\* find's callback: elements.foreach(inner, return_results=True) flattened.
\* foreach applies inner to the context itself once for each of its items,
\* and inner reads e.item, the first item: the driver's matches under the
\* first item of the context, as many times as the context has items.
FindResolve(ctxItems, d) ==
    Resolved(Flatten([k \in 1..Len(ctxItems) |-> d[ctxItems[1]]]))

\* self.fn(self.context)
Resolve(f, ctxItems, d) ==
    IF f.op = "root" THEN Resolved(<<"browser">>)
    ELSE IF f.op = "get" THEN GetResolve(ctxItems, f.i)
    ELSE FindResolve(ctxItems, d)

\* bool(self.context) in Elements.update: None is false, a collection is
\* true when it has items (Elements.__len__).
ContextTruthy(its) == Len(its) > 0

\* Slip: the constructor refreshing with propagation.
InitPropagateTrue == TRUE

\* Elements.__init__: self.update(propagate=False)
InitPropagate == FALSE

\* Elements.__init__: if not self.config.get('ttl'):
\*                        self.config['ttl'] = DEFAULT_TTL
InitTtl(t) == IF ~Truthy(t) THEN DEFAULT_TTL ELSE t

\* Slip: a lazy collection resolved at construction all the same.
LazyDefersNever(lazy) == FALSE

\* Whether construction leaves the resolver unevaluated: for lazy collections.
LazyDefers(lazy) == lazy

\* The lazy flag in force after a constructor was given lazy (None, True or
\* False): what is passed overwrites what the config holds.
LazyConfig(arg, old) == IF arg = "None" THEN old ELSE arg = "True"

\* Slip: every constructor starting a config of its own.
InitConfigOwn(given, own) == own

\* Elements.__init__: self.config = config if config else {}. A collection
\* that derives another passes its own config (config=self.config), which
\* holds 'ttl' since its constructor and so is kept; the root, given None,
\* starts one. Configs are named by the collection that started them.
InitConfig(given, own) == IF given # 0 THEN given ELSE own

\* A collection: its context (0 for None), its resolver, whether its items
\* have been resolved yet, its items, and the config it holds.
Collection(ctx, f, cfg) ==
    [context |-> ctx, fn |-> f, loaded |-> FALSE, items |-> << >>,
     config |-> cfg]

\* What a step of an operation did: the collections after it, the collections
\* whose resolver it evaluated, in order, and the failure it ended with.
Outcome(cs, ord, e) == [cs |-> cs, order |-> ord, err |-> e]
AndThen(r, q) == Outcome(q.cs, r.order \o q.order, q.err)

\* Slip: the items cleared when the resolver raises.
ItemsAfterCleared(old, res) == res.items

\* self.items = self.fn(self.context): the items after the statement, which
\* assigns only once the resolver has returned.
ItemsAfter(old, res) == IF res.err = "none" THEN res.items ELSE old

RECURSIVE UpdateRec(_, _, _, _, _)
\* Reading x.items: a lazy collection not resolved yet is resolved first.
Access(cs, x, lazy, d) ==
    IF lazy /\ ~cs[x].loaded THEN UpdateRec(cs, x, TRUE, lazy, d)
    ELSE Outcome(cs, << >>, "none")

\* Elements.update(propagate) of collection c:
\*   if propagate and self.context: self.context.update(propagate=True)
\*   self.items = self.fn(self.context)
UpdateRec(cs, c, propagate, lazy, d) ==
    LET ctx == cs[c].context
        r1 == IF propagate /\ ctx # 0 THEN Access(cs, ctx, lazy, d)
              ELSE Outcome(cs, << >>, "none")
        r2 == IF r1.err # "none" THEN r1
              ELSE IF propagate /\ ctx # 0
                      /\ ContextTruthy(r1.cs[ctx].items)
                   THEN AndThen(r1, UpdateRec(r1.cs, ctx, TRUE, lazy, d))
                   ELSE r1
        r3 == IF r2.err # "none" \/ ctx = 0 THEN r2
              ELSE AndThen(r2, Access(r2.cs, ctx, lazy, d))
        res == Resolve(cs[c].fn,
                       IF ctx = 0 THEN << >> ELSE r3.cs[ctx].items, d)
    IN  IF r3.err # "none" THEN r3
        ELSE IF res.err # "none"
             THEN Outcome([r3.cs EXCEPT
                              ![c].items = ItemsAfter(r3.cs[c].items, res)],
                          r3.order, res.err)
        ELSE Outcome([r3.cs EXCEPT
                         ![c].items = ItemsAfter(r3.cs[c].items, res),
                         ![c].loaded = TRUE],
                     Append(r3.order, c), "none")

\* Elements.__init__ of a new collection with context ctx and resolver f,
\* under the lazy flag in force: the collection is resolved at once by
\* update(propagate=False) unless it is lazy.
Build(cs, ctx, f, lazy, d) ==
    LET c == Len(cs) + 1
        cs1 == Append(cs, Collection(ctx, f,
                                     InitConfig(IF ctx = 0 THEN 0
                                                ELSE cs[ctx].config, c)))
    IN  IF LazyDefers(lazy) THEN Outcome(cs1, << >>, "none")
        ELSE UpdateRec(cs1, c, InitPropagate, lazy, d)

\* config['ttl'] after the resolvers of the collections in ord were evaluated:
\* the callback of a query iterates over its context (foreach: for element in
\* self), the iterator builds a collection per item by get, and each
\* constructor writes the default ttl into the shared config.
ConfigAfter(t, cs, ord) ==
    IF \E k \in 1..Len(ord) :
          /\ cs[ord[k]].fn.op = "find"
          /\ cs[cs[ord[k]].context].items # << >>
    THEN InitTtl(t) ELSE t

\* The record of an operation on collection c, whose context is ctx and
\* whose resolver is f.
Op(name, c, ctx, f, prop, r) ==
    [op |-> name, target |-> c, context |-> ctx, fn |-> f, propagate |-> prop,
     order |-> r.order, err |-> r.err]
NoOp == [op |-> "none", target |-> 0, context |-> 0, fn |-> RootFn,
         propagate |-> FALSE, order |-> << >>, err |-> "none"]

\* No waiter built, no call made.
NoWaiter ==
    /\ kind = "none"
    /\ self_n = 0
    /\ self_ttl = 0
    /\ self_pause = 0
    /\ exceptions = {}
    /\ items = << >>
    /\ pc = "new"
    /\ n = 0
    /\ ttl = 0
    /\ etime = 0
    /\ pause = 0
    /\ exc = "none"
    /\ exc_from_run = "none"
    /\ now = 0
    /\ arg_n = 0
    /\ arg_ttl = 0
    /\ budget = CheckErr
    /\ start = 0
    /\ outs = << >>
    /\ sleeps = << >>
    /\ updates = 0
    /\ log = << >>
    /\ result = NoResult
    /\ detail = << >>
    /\ entry = "none"
    /\ ctor = << >>
    /\ ret_args = NoRetried

\* No collection built.
\* No operation has been called yet.
NoOpCall == [name |-> "none"]
NoCall == op = NoOpCall

NoElements ==
    /\ colls = << >>
    /\ dom = [x \in Nodes |-> << >>]
    /\ cfg_ttl = NoneArg
    /\ cfg_lazy = FALSE
    /\ cfg_given = NoneArg
    /\ lastOp = NoOp

Init == NoWaiter /\ NoElements /\ NoCall

\* Construction of a waiter: Waiter.__init__ through the subclass constructors.
\* The exception waiters take the recognized kinds, the elements waiters the
\* collection they are bound to.
Construct ==
    /\ UNCHANGED <<elemVars, opVars>>
    /\ pc = "new"
    /\ \E k \in WaiterKinds, n0 \in -1..MaxN,
          ttl0 \in {NoneArg} \cup (-1..MaxTtl), pause0 \in -1..MaxPause,
          excs \in ExceptionSets, its \in Snapshots :
          IF WaiterInitError(n0, ttl0, pause0) # "none"
          THEN /\ pc' = "done"
               /\ result' = Raise(WaiterInitError(n0, ttl0, pause0))
               /\ ctor' = <<n0, ttl0, pause0>>
               /\ UNCHANGED <<waiterVars, items>>
          ELSE /\ kind' = k
               /\ self_n' = n0
               /\ self_ttl' = IF Truthy(ttl0) THEN ttl0 ELSE 0
               /\ self_pause' = pause0
               /\ exceptions' = IF k = "ConditionElementsWaiter" THEN {}
                                ELSE excs
               /\ items' = IF k = "ExceptionRetryWaiter" THEN << >> ELSE its
               /\ pc' = "idle"
               /\ UNCHANGED <<result, ctor>>
    /\ entry' = "ctor"
    /\ UNCHANGED <<n, ttl, etime, pause, exc, exc_from_run, now, argVars,
                   outs, sleeps, updates, log, detail, ret_args>>

\* self.n and self.ttl written after construction (as the test of the waiter
\* that never ran does).
Override ==
    /\ UNCHANGED <<elemVars, opVars>>
    /\ pc = "idle"
    /\ entry = "ctor"
    /\ \E n0 \in OverrideValues, ttl0 \in OverrideValues :
          /\ self_n' = n0
          /\ self_ttl' = ttl0
    /\ entry' = "override"
    /\ UNCHANGED <<kind, self_pause, exceptions, items, pc, n, ttl, etime,
                   pause, exc, exc_from_run, now, argVars, outs, sleeps,
                   updates, log, result, detail, ctor, ret_args>>

\* SeElements.retried(fn, update, ttl) on a collection with the given items
\* and config ttl: with a true ttl it builds a WebDriverExceptionRetryWaiter or
\* WebDriverExceptionRetryElementsWaiter (n=0, ttl=ttl, the default pause,
\* retrying on WebDriverException) and calls its wait(fn), which runs up to
\* the loop here; otherwise fn is called directly.
Retried ==
    /\ UNCHANGED <<elemVars, opVars>>
    /\ pc = "new"
    /\ \E upd \in BOOLEAN, t \in {NoneArg} \cup (-1..MaxTtl), c \in CfgTtls,
          its \in Snapshots :
          LET rttl == RetriedTtl(t, c)
              w == RetriedWaiter(upd, rttl)
              err == WaiterInitError(0, rttl, DEFAULT_SLEEP_TIME)
              r == check_args(0, rttl, 0, NoneArg)
          IN
          /\ ret_args' = [update |-> upd, ttl |-> t,
                          cfg |-> IF t = NoneArg THEN c ELSE NoneArg,
                          items |-> its]
          /\ items' = its
          /\ IF w = "none"
             THEN /\ pc' = "direct"
                  /\ UNCHANGED <<waiterVars, argVars, n, ttl, etime, pause,
                                 result, ctor>>
             ELSE IF err # "none"
             THEN /\ pc' = "done"
                  /\ result' = Raise(err)
                  /\ ctor' = <<0, rttl, DEFAULT_SLEEP_TIME>>
                  /\ UNCHANGED <<waiterVars, argVars, n, ttl, etime, pause>>
             ELSE /\ kind' = w
                  /\ self_n' = 0
                  /\ self_ttl' = rttl
                  /\ self_pause' = DEFAULT_SLEEP_TIME
                  /\ exceptions' = {"WebDriverException"}
                  /\ arg_n' = 0
                  /\ arg_ttl' = NoneArg
                  /\ budget' = r
                  /\ start' = now
                  /\ IF r.err # "none"
                     THEN /\ pc' = "done"
                          /\ result' = Raise(r.err)
                          /\ UNCHANGED <<n, ttl, etime, pause>>
                     ELSE /\ n' = r.n
                          /\ ttl' = r.ttl
                          /\ etime' = EndTime(now, r.ttl)
                          /\ pause' = DEFAULT_SLEEP_TIME
                          /\ pc' = IF w = "ExceptionRetryWaiter" THEN "body"
                                   ELSE "loop"
                          /\ UNCHANGED result
                  /\ UNCHANGED ctor
    /\ entry' = "retried"
    /\ UNCHANGED <<exc, exc_from_run, now, outs, sleeps, updates, log, detail>>

\* SeElements.retried without a waiter: return fn(self) / return fn()
CallDirect ==
    /\ UNCHANGED <<elemVars, opVars>>
    /\ pc = "direct"
    /\ \E o \in {Return(v) : v \in Values} \cup {Raise(e) : e \in Kinds},
          d \in 0..MaxDur :
          /\ outs' = Append(outs, o)
          /\ now' = now + d
          /\ log' = Append(log, Event("call", now + d))
          /\ result' = o
    /\ pc' = "done"
    /\ UNCHANGED <<waiterVars, argVars, items, n, ttl, etime, pause, exc,
                   exc_from_run, sleeps, updates, detail, entryVars>>

\* wait(fn, n, ttl) up to the loop: n, ttl = self._check_args(n, ttl);
\* etime = time.time() + ttl; pause = self.pause
Wait ==
    /\ UNCHANGED <<elemVars, opVars>>
    /\ pc = "idle"
    /\ \E n0 \in {NoneArg} \cup (-1..MaxN), ttl0 \in {NoneArg} \cup (-1..MaxTtl) :
          LET r == check_args(self_n, self_ttl, n0, ttl0) IN
          /\ arg_n' = n0
          /\ arg_ttl' = ttl0
          /\ budget' = r
          /\ start' = now
          /\ IF r.err # "none"
             THEN /\ pc' = "done"
                  /\ result' = Raise(r.err)
                  /\ UNCHANGED <<n, ttl, etime, pause>>
             ELSE /\ n' = r.n
                  /\ ttl' = r.ttl
                  /\ etime' = EndTime(now, r.ttl)
                  /\ pause' = self_pause
                  /\ pc' = IF kind = "ExceptionRetryWaiter" THEN "body" ELSE "loop"
                  /\ UNCHANGED result
    /\ UNCHANGED <<waiterVars, items, exc, exc_from_run, now, outs, sleeps,
                   updates, log, detail, entryVars>>

\* The while test of ExceptionRetryElementsWaiter.wait and
\* ConditionElementsWaiter.wait, with the else clause of the loop.
LoopTest ==
    /\ UNCHANGED <<elemVars, opVars>>
    /\ pc = "loop"
    /\ kind \in {"ExceptionRetryElementsWaiter", "ConditionElementsWaiter"}
    /\ IF Remaining(now, etime, n)
       THEN /\ pc' = "body"
            /\ UNCHANGED <<result, detail>>
       ELSE /\ pc' = "done"
            /\ result' = ExhaustedResult(kind, exc_from_run)
            /\ detail' = IF ExhaustedResult(kind, exc_from_run)
                               = Raise("RuntimeError")
                         THEN <<n, ttl>> ELSE detail
    /\ UNCHANGED <<waiterVars, argVars, items, n, ttl, etime, pause, exc,
                   exc_from_run, now, outs, sleeps, updates, log, entryVars>>

\* n -= 1; try: return fn() / fn(self.elements), for the exception waiters.
\* The operation returns a value or raises a failure of some kind, and takes
\* d ticks.
CallOperation ==
    /\ UNCHANGED <<elemVars, opVars>>
    /\ pc = "body"
    /\ kind \in {"ExceptionRetryWaiter", "ExceptionRetryElementsWaiter"}
    /\ Len(outs) < MaxCalls
    /\ n' = n - 1
    /\ \E o \in {Return(v) : v \in Values} \cup {Raise(e) : e \in Kinds},
          d \in 0..MaxDur :
          /\ outs' = Append(outs, o)
          /\ now' = now + d
          /\ log' = Append(log, Event("call", now + d))
          /\ IF Handled(exceptions, o)
             THEN /\ pc' = "caught"
                  /\ exc' = o.val
                  /\ UNCHANGED result
             ELSE /\ pc' = "done"
                  /\ result' = IF o.type = "return" THEN WaitResult(kind, o)
                               ELSE o
                  /\ UNCHANGED exc
    /\ UNCHANGED <<waiterVars, argVars, items, ttl, etime, pause, exc_from_run,
                   sleeps, updates, detail, entryVars>>

\* n -= 1; if not fn(self.elements): ... else: break; return self.elements
CallPredicate ==
    /\ UNCHANGED <<elemVars, opVars>>
    /\ pc = "body"
    /\ kind = "ConditionElementsWaiter"
    /\ Len(outs) < MaxCalls
    /\ n' = n - 1
    /\ \E o \in {Return(v) : v \in Truth} \cup {Raise(e) : e \in Kinds},
          d \in 0..MaxDur :
          /\ outs' = Append(outs, o)
          /\ now' = now + d
          /\ IF o.type = "raise"
             THEN /\ pc' = "done"
                  /\ result' = o
             ELSE IF o.val = "False"
                  THEN /\ pc' = "caught"
                       /\ UNCHANGED result
                  ELSE /\ pc' = "done"
                       /\ result' = WaitResult(kind, o)
          /\ log' = Append(log, Event("call", now + d))
    /\ UNCHANGED <<waiterVars, argVars, items, ttl, etime, pause, exc,
                   exc_from_run, sleeps, updates, detail, entryVars>>

\* ExceptionRetryWaiter.wait, except clause:
\* if time.time() < etime or n > 0: sleep, double the pause; else: raise exc
HandleRetry ==
    /\ UNCHANGED <<elemVars, opVars>>
    /\ pc = "caught"
    /\ kind = "ExceptionRetryWaiter"
    /\ IF Remaining(now, etime, n)
       THEN /\ sleeps' = Append(sleeps, pause)
            /\ now' = now + pause
            /\ pause' = NextPause(pause)
            /\ log' = Append(log, Event("sleep", now + pause))
            /\ pc' = "body"
            /\ UNCHANGED result
       ELSE /\ pc' = "done"
            /\ result' = Raise(exc)
            /\ UNCHANGED <<sleeps, now, pause, log>>
    /\ UNCHANGED <<waiterVars, argVars, items, n, ttl, etime, exc,
                   exc_from_run, outs, updates, detail, entryVars>>

\* The elements waiters after a failed attempt: time.sleep(pause);
\* pause = min(pause + pause, pause * 4); and, in
\* ExceptionRetryElementsWaiter.wait, exc_from_run = exc
Sleep ==
    /\ UNCHANGED <<elemVars, opVars>>
    /\ pc = "caught"
    /\ kind \in {"ExceptionRetryElementsWaiter", "ConditionElementsWaiter"}
    /\ sleeps' = Append(sleeps, pause)
    /\ now' = now + pause
    /\ pause' = NextPause(pause)
    /\ exc_from_run' = IF kind = "ExceptionRetryElementsWaiter"
                       THEN CapturedExc(exc_from_run, exc)
                       ELSE exc_from_run
    /\ log' = Append(log, Event("sleep", now + pause))
    /\ pc' = "slept"
    /\ UNCHANGED <<waiterVars, argVars, items, n, ttl, etime, exc, outs,
                   updates, result, detail, entryVars>>

\* Elements.update: the resolver is evaluated again and items replaced; the
\* live document decides what it resolves to; it takes d ticks.
\* ExceptionRetryElementsWaiter.wait calls it under "if self.elements:",
\* ConditionElementsWaiter.wait always.
\* A resolver may raise instead: the IndexError of get's lambda whose parent
\* shrank, or a kind the waiter recognizes. The call of update stands in the
\* except clause, outside the try, so what it raises leaves wait.
Update ==
    /\ UNCHANGED <<elemVars, opVars>>
    /\ pc = "slept"
    /\ IF ShouldUpdate(kind, items)
       THEN \/ \E its \in Snapshots, d \in UpdateDurations :
                  /\ items' = its
                  /\ now' = now + d
                  /\ updates' = updates + 1
                  /\ log' = Append(log, Event("update", now + d))
                  /\ pc' = "loop"
                  /\ UNCHANGED result
            \/ \E e \in UpdateFailures :
                  /\ log' = Append(log, Event("update raised", now))
                  /\ IF UpdateFailureEnds(exceptions, e)
                     THEN pc' = "done" /\ result' = Raise(e)
                     ELSE pc' = "loop" /\ UNCHANGED result
                  /\ UNCHANGED <<items, now, updates>>
       ELSE /\ pc' = "loop"
            /\ UNCHANGED <<items, now, updates, log, result>>
    /\ UNCHANGED <<waiterVars, argVars, n, ttl, etime, pause, exc,
                   exc_from_run, outs, sleeps, detail, entryVars>>

\* SeElements(browser, config=..., lazy=...): the root collection, whose
\* resolver is lambda context: [browser].
NewRoot ==
    /\ colls = << >>
    /\ \E t \in ConfigTtls, lz \in {"None", "True"}, d \in DomSet :
          LET lazy == LazyConfig(lz, FALSE)
              r == Build(<< >>, 0, RootFn, lazy, d)
          IN  /\ dom' = d
              /\ cfg_given' = t
              /\ cfg_ttl' = InitTtl(t)
              /\ cfg_lazy' = lazy
              /\ colls' = r.cs
              /\ lastOp' = Op("new", 1, 0, RootFn, InitPropagate, r)
    /\ UNCHANGED <<runVars, opVars>>

\* c.get(i): SeElements(self.browser, context=self,
\*                      fn=lambda context: [context.items[i]],
\*                      config=self.config)
\* A constructor that raises leaves no collection behind.
Get ==
    /\ colls # << >>
    /\ Len(colls) < MaxColls
    /\ \E c \in 1..Len(colls), i \in Indices :
          LET r == Build(colls, c, GetFn(i), cfg_lazy, dom)
          IN  /\ colls' = IF r.err = "none" THEN r.cs
                           ELSE SubSeq(r.cs, 1, Len(colls))
              /\ lastOp' = Op("get", Len(colls) + 1, c, GetFn(i),
                              InitPropagate, r)
    /\ cfg_ttl' = InitTtl(cfg_ttl)
    /\ UNCHANGED <<runVars, opVars, dom, cfg_lazy, cfg_given>>

\* c.find(selector): SeElements(self.browser, context=self, fn=callback,
\*                              config=self.config)
Find ==
    /\ colls # << >>
    /\ Len(colls) < MaxColls
    /\ \E c \in 1..Len(colls) :
          LET r == Build(colls, c, FindFn, cfg_lazy, dom)
          IN  /\ colls' = r.cs
              /\ lastOp' = Op("find", Len(colls) + 1, c, FindFn, InitPropagate,
                              r)
    /\ cfg_ttl' = InitTtl(cfg_ttl)
    /\ UNCHANGED <<runVars, opVars, dom, cfg_lazy, cfg_given>>

\* c.update(propagate)
UpdateElements ==
    /\ \E c \in 1..Len(colls), prop \in BOOLEAN :
          LET r == UpdateRec(colls, c, prop, cfg_lazy, dom)
          IN  /\ colls' = r.cs
              /\ lastOp' = Op("update", c, colls[c].context, colls[c].fn, prop,
                              r)
              /\ cfg_ttl' = ConfigAfter(cfg_ttl, r.cs, r.order)
    /\ UNCHANGED <<runVars, opVars, dom, cfg_lazy, cfg_given>>

\* Reading c.items of a lazy collection (with no lazy loading items is a plain
\* attribute, and reading it does nothing).
ReadItems ==
    /\ cfg_lazy
    /\ \E c \in 1..Len(colls) :
          LET r == Access(colls, c, cfg_lazy, dom)
          IN  /\ colls' = r.cs
              /\ lastOp' = Op("items", c, colls[c].context, colls[c].fn, FALSE,
                              r)
              /\ cfg_ttl' = ConfigAfter(cfg_ttl, r.cs, r.order)
    /\ UNCHANGED <<runVars, opVars, dom, cfg_lazy, cfg_given>>

\* c.ttl = value: self.config['ttl'] = value, in the config c holds.
\* cfg_ttl is the ttl in the config of the root.
SetTtl ==
    /\ colls # << >>
    /\ \E c \in 1..Len(colls), t \in ConfigTtls \ {NoneArg} :
          /\ cfg_ttl' = IF colls[c].config = colls[1].config THEN t
                        ELSE cfg_ttl
          /\ cfg_given' = t
    /\ lastOp' = NoOp
    /\ UNCHANGED <<runVars, opVars, colls, dom, cfg_lazy>>

\* The page changes under the collections.
Mutate ==
    /\ colls # << >>
    /\ \E d \in DomSet \ {dom} : dom' = d
    /\ lastOp' = NoOp
    /\ UNCHANGED <<runVars, opVars, colls, cfg_ttl, cfg_lazy, cfg_given>>

\* The raw nodes a caller stores into a collection.
StoredNodes == {"b"}

\* Elements.__setitem__, __delitem__ and insert, the sequence protocol of a
\* collection whose items are resolved: self.items[i] = value,
\* del self.items[i], self.items.insert(index, value). An index out of range
\* raises IndexError and changes nothing; insert takes any index.
SetItem ==
    /\ \E c \in 1..Len(colls), i \in Indices, v \in StoredNodes :
          /\ colls[c].loaded
          /\ colls' = IF InRangeOf(i, colls[c].items)
                      THEN [colls EXCEPT ![c].items[i + 1] = v]
                      ELSE colls
          /\ lastOp' = Op("setitem", c, colls[c].context, colls[c].fn, FALSE,
                          Outcome(colls, << >>,
                                  IF InRangeOf(i, colls[c].items) THEN "none"
                                  ELSE "IndexError"))
    /\ UNCHANGED <<runVars, opVars, dom, cfg_ttl, cfg_lazy, cfg_given>>

DelItem ==
    /\ \E c \in 1..Len(colls), i \in Indices :
          /\ colls[c].loaded
          /\ colls' = IF InRangeOf(i, colls[c].items)
                      THEN [colls EXCEPT ![c].items =
                               SubSeq(@, 1, i) \o SubSeq(@, i + 2, Len(@))]
                      ELSE colls
          /\ lastOp' = Op("delitem", c, colls[c].context, colls[c].fn, FALSE,
                          Outcome(colls, << >>,
                                  IF InRangeOf(i, colls[c].items) THEN "none"
                                  ELSE "IndexError"))
    /\ UNCHANGED <<runVars, opVars, dom, cfg_ttl, cfg_lazy, cfg_given>>

InsertItem ==
    /\ \E c \in 1..Len(colls), i \in Indices, v \in StoredNodes :
          /\ colls[c].loaded
          /\ Len(colls[c].items) < MaxLen
          /\ colls' = [colls EXCEPT ![c].items =
                          SubSeq(@, 1, Min(i, Len(@))) \o <<v>>
                          \o SubSeq(@, Min(i, Len(@)) + 1, Len(@))]
          /\ lastOp' = Op("insert", c, colls[c].context, colls[c].fn, FALSE,
                          Outcome(colls, << >>, "none"))
    /\ UNCHANGED <<runVars, opVars, dom, cfg_ttl, cfg_lazy, cfg_given>>

\* A collection used as a mutable sequence.
NextSequence ==
    \/ NewRoot
    \/ UpdateElements
    \/ SetItem
    \/ DelItem
    \/ InsertItem

SpecSequence == Init /\ [][NextSequence]_vars

NextElements ==
    \/ NewRoot
    \/ Get
    \/ Find
    \/ UpdateElements
    \/ ReadItems
    \/ SetTtl
    \/ Mutate

SpecElements == Init /\ [][NextElements]_vars

\* ---- claims about the collections ----
Eager == colls # << >> /\ ~cfg_lazy
Lazy == colls # << >> /\ cfg_lazy
Building == {"new", "get", "find"}
Built == lastOp.op \in Building /\ lastOp.err = "none"
Last(sq) == sq[Len(sq)]
Occurrences(sq, x) == Cardinality({k \in 1..Len(sq) : sq[k] = x})

\* The collections from the root down to c.
RECURSIVE Chain(_)
Chain(c) == IF c = 0 THEN << >> ELSE Append(Chain(colls[c].context), c)

\* Index i is within the items its.
InRange(i, its) == i + 1 \in 1..Len(its)

C16_AsStated ==
    (Eager /\ lastOp.op = "update" /\ lastOp.err = "none")
        => lastOp.order = IF lastOp.propagate THEN Chain(lastOp.target)
                          ELSE <<lastOp.target>>

C20_AsStated ==
    (colls # << >> /\ ~Truthy(cfg_given))
        => RetriedWaiter(TRUE, RetriedTtl(NoneArg, cfg_ttl)) = "none"


Next ==
    \/ Construct
    \/ Override
    \/ Retried
    \/ CallDirect
    \/ Wait
    \/ LoopTest
    \/ CallOperation
    \/ CallPredicate
    \/ HandleRetry
    \/ Sleep
    \/ Update

Spec == Init /\ [][Next]_vars

\* The calls of wait on a waiter whose pause is positive.
ConstructLive == Construct /\ pc' = "idle" /\ self_pause' > 0

\* One outcome of fn of each kind the loop tells apart: a value, a true and
\* a false answer, a failure every waiter recognizes and one none does.
Representative(o) ==
    o \in {Return("v1"), Return("True"), Return("False"),
           Raise("TypeError"), Raise("WebDriverException")}
CallOperationLive == CallOperation /\ Representative(outs'[Len(outs')])
CallPredicateLive == CallPredicate /\ Representative(outs'[Len(outs')])

\* A step of the loop of wait. wait runs in the thread that called it, which
\* goes on to the next statement as soon as the invocation of fn, the sleep or
\* the update it is in has returned.
WaitStep ==
    \/ LoopTest
    \/ CallOperationLive
    \/ CallPredicateLive
    \/ HandleRetry
    \/ Sleep
    \/ Update

NextLive ==
    \/ ConstructLive
    \/ Wait
    \/ WaitStep

\* The waiters with every invocation, sleep and update returning.
SpecLive == Init /\ [][NextLive]_vars /\ WF_vars(WaitStep)

TypeOK ==
    /\ kind \in WaiterKinds \cup {"none"}
    /\ pc \in {"new", "idle", "direct", "loop", "body", "caught", "slept",
              "done"}
    /\ items \in Snapshots
    /\ updates \in Nat
    /\ now \in Nat

\* ---- vocabulary of the properties ----
ERW == "ExceptionRetryWaiter"
EREW == "ExceptionRetryElementsWaiter"
CEW == "ConditionElementsWaiter"
ExcWaiters == {ERW, EREW}

\* wait has been called on the waiter.
Called == kind # "none" /\ pc \notin {"new", "idle", "direct"}
Done == pc = "done"

\* The refresh a waiter made after its last attempt raised.
UpdateRaised == log # << >> /\ log[Len(log)].ev = "update raised"

\* fn raised a failure of a kind the waiter retries on / does not retry on.
Recognized(o) == o.type = "raise" /\ o.val \in exceptions
Unrecognized(o) == o.type = "raise" /\ o.val \notin exceptions

AllRecognized == \A i \in 1..Len(outs) : Recognized(outs[i])
AllFalse == \A i \in 1..Len(outs) : outs[i] = Return("False")

\* wait(fn, n=k) with k >= 1 and no ttl.
CountMode == Called /\ arg_n >= 1 /\ arg_ttl = NoneArg
\* wait(fn, ttl=T) with T > 0 and no n (n is absent or its default 0).
TimeMode == Called /\ arg_ttl >= 1 /\ arg_n \in {NoneArg, 0}

LastEvent == log[Len(log)].ev

\* The clock at the waiter's first budget test after the first attempt:
\* ExceptionRetryWaiter tests right after the attempt, the elements waiters
\* after the pause and the refresh that follow it.
FirstRetryTestAt ==
    IF kind = ERW THEN log[1].at
    ELSE LET later == {i \in 2..Len(log) : log[i].ev = "call"}
             stop == IF later = {} THEN Len(log)
                     ELSE (CHOOSE i \in later : \A j \in later : i <= j) - 1
         IN log[stop].at

\* C1: ExceptionRetryWaiter.wait(fn, n=k), k >= 1 and no ttl, on an operation
\* that always raises a recognized kind: fn is invoked exactly k times (never
\* more, with k-1 pauses between) and wait then re-raises the failure,
\* whatever ttl the waiter was constructed with.
C1_CountModeInvokesExactlyK ==
    (kind = ERW /\ CountMode /\ AllRecognized) =>
        /\ Len(outs) <= arg_n
        /\ Len(sleeps) < arg_n
        /\ Done => /\ Len(outs) = arg_n
                   /\ Len(sleeps) = arg_n - 1
                   /\ result = outs[arg_n]

C1_Witness ==
    /\ kind = ERW /\ CountMode /\ AllRecognized /\ Done
    /\ arg_n = 2 /\ self_ttl > 0
    /\ Len(outs) = 2 /\ result.type = "raise"

\* C2: in both exception-retry waiters an operation raising a kind outside
\* the recognized set is invoked exactly once, wait ends with that very
\* failure, and nothing sleeps and nothing is refreshed, whatever the budget.
C2_UnrecognizedPropagatesAtOnce ==
    (kind \in ExcWaiters /\ Len(outs) >= 1 /\ Unrecognized(outs[1])) =>
        /\ Done
        /\ Len(outs) = 1
        /\ result = outs[1]
        /\ sleeps = << >>
        /\ updates = 0

C2_Witness ==
    /\ kind = EREW /\ Done /\ TimeMode
    /\ exceptions = {"TypeError"}
    /\ outs = <<Raise("ValueError")>>
    /\ result = Raise("ValueError")

\* C3: in both exception-retry waiters the first attempt that succeeds ends
\* wait with that attempt's result, no attempt, sleep or refresh follows it,
\* and an operation that succeeds at once is invoked exactly once.
C3_FirstSuccessReturns ==
    (kind \in ExcWaiters /\ Len(outs) >= 1) =>
        /\ \A i \in 1..Len(outs) :
              outs[i].type = "return" =>
                 /\ i = Len(outs)
                 /\ Done
                 /\ result = outs[i]
                 /\ LastEvent = "call"
        /\ outs[1].type = "return" => sleeps = << >> /\ updates = 0

C3_Witness ==
    /\ kind = EREW /\ Done
    /\ Len(outs) = 2
    /\ Recognized(outs[1])
    /\ outs[2] = Return("v2")
    /\ result = Return("v2")

\* C4: when an exception-retry waiter gives up after at least one attempt,
\* what it raises is the failure of the last attempt, also when earlier
\* attempts failed with another recognized kind. (Giving up is the waiter's
\* own end: a refresh that raised ends wait with its own failure.)
C4_RaisesLastFailure ==
    (kind \in ExcWaiters /\ Done /\ Len(outs) >= 1 /\ AllRecognized
        /\ ~UpdateRaised) =>
        result = outs[Len(outs)]

C4_Witness ==
    /\ kind = EREW /\ Done
    /\ outs = <<Raise("TypeError"), Raise("ValueError")>>
    /\ result = Raise("ValueError")

\* C5: ExceptionRetryElementsWaiter.wait(fn, n=k) on an operation that always
\* raises a recognized kind invokes fn exactly k times and calls the bound
\* collection's update exactly k times before re-raising.
C5_UpdatesOncePerFailure ==
    (kind = EREW /\ CountMode /\ AllRecognized /\ Done) =>
        /\ Len(outs) = arg_n
        /\ updates = arg_n
        /\ result = outs[arg_n]

\* C6: ConditionElementsWaiter.wait(fn, n=k) on a predicate that is always
\* false evaluates it exactly k times, each evaluation followed by a pause and
\* one update of the collection, and then fails with TimeOutError. (Every
\* update returning.)
C6_AlwaysFalseCountMode ==
    (kind = CEW /\ CountMode /\ AllFalse /\ ~UpdateRaised) =>
        /\ Len(outs) <= arg_n
        /\ \A i \in 1..Len(log) :
              log[i].ev = <<"call", "sleep", "update">>[((i - 1) % 3) + 1]
        /\ Done => /\ Len(outs) = arg_n
                   /\ updates = arg_n
                   /\ result = Raise("TimeOutError")

C6_Witness ==
    /\ kind = CEW /\ CountMode /\ AllFalse /\ Done
    /\ arg_n = 2 /\ Len(outs) = 2 /\ updates = 2
    /\ items = << >>
    /\ result = Raise("TimeOutError")

\* C7: when the predicate of ConditionElementsWaiter.wait returns true, wait
\* returns the bound collection itself at once: no sleep and no update follow
\* the true evaluation, and a predicate true at first is evaluated once.
C7_TrueReturnsCollection ==
    (kind = CEW /\ Len(outs) >= 1) =>
        /\ \A i \in 1..Len(outs) :
              outs[i] = Return("True") =>
                 /\ i = Len(outs)
                 /\ Done
                 /\ result = Return(ElementsRef)
                 /\ LastEvent = "call"
        /\ outs[1] = Return("True") => sleeps = << >> /\ updates = 0

C7_Witness ==
    /\ kind = CEW /\ Done
    /\ outs = <<Return("False"), Return("True")>>
    /\ updates = 1
    /\ result = Return(ElementsRef)

\* C8 as stated: in time mode (ttl=T>0) an exception-retry waiter whose
\* operation always raises a recognized kind does not raise before T has
\* elapsed, and invokes the operation more than once when the initial pause
\* is smaller than T.
C8_AsStated ==
    (kind \in ExcWaiters /\ TimeMode /\ AllRecognized /\ Done
        /\ result.type = "raise" /\ Len(outs) >= 1) =>
        /\ now - start >= arg_ttl
        /\ self_pause < arg_ttl => Len(outs) > 1

\* C8 (amended): in time mode (ttl=T>0) an exception-retry waiter whose
\* operation always raises a recognized kind does not raise before T has
\* elapsed, and invokes the operation more than once when the clock is still
\* before the deadline at the first budget test after the first attempt.
\* (Every refresh of the collection returning.)
C8_TimeModeLowerBound ==
    (kind \in ExcWaiters /\ TimeMode /\ AllRecognized /\ Done
        /\ result.type = "raise" /\ Len(outs) >= 1 /\ ~UpdateRaised) =>
        /\ now - start >= arg_ttl
        /\ FirstRetryTestAt < etime => Len(outs) > 1

C8_Witness ==
    /\ kind = EREW /\ TimeMode /\ AllRecognized /\ Done
    /\ arg_ttl = 2
    /\ result.type = "raise"
    /\ Len(outs) = 2
    /\ now - start >= 2

\* C9: in time mode (ttl=T>0) ConditionElementsWaiter.wait on a predicate that
\* is always false ends with TimeOutError, not before T has elapsed since wait
\* was called and after at least one evaluation of the predicate. (Every
\* update returning.)
C9_TimeOutNotBeforeTtl ==
    (kind = CEW /\ TimeMode /\ AllFalse /\ Done /\ ~UpdateRaised) =>
        /\ result = Raise("TimeOutError")
        /\ now - start >= arg_ttl
        /\ Len(outs) >= 1

C9_Witness ==
    /\ kind = CEW /\ TimeMode /\ AllFalse /\ Done
    /\ arg_ttl = 2
    /\ result = Raise("TimeOutError")
    /\ Len(outs) >= 2

\* The arguments of _check_args: absent counts as zero.
Norm(x) == IF x = NoneArg THEN 0 ELSE x
NonNeg(x) == x = NoneArg \/ x >= 0
ExactlyOneSet(a, b) ==
    /\ NonNeg(a) /\ NonNeg(b)
    /\ (Truthy(a) /\ ~Truthy(b)) \/ (~Truthy(a) /\ Truthy(b))
NeitherSet(a, b) == NonNeg(a) /\ NonNeg(b) /\ ~Truthy(a) /\ ~Truthy(b)

\* C10 as stated: _check_args returns (n, ttl) unchanged when exactly one of
\* them is nonzero and both are non-negative, and raises ValueError for every
\* other combination.
C10_AsStated ==
    Called =>
        IF ExactlyOneSet(arg_n, arg_ttl)
        THEN budget = CheckOk(Norm(arg_n), Norm(arg_ttl))
        ELSE budget.err = "ValueError"

\* C10 (amended): _check_args returns (n, ttl) unchanged (an absent value as
\* 0) when exactly one of them is nonzero and both are non-negative; when both
\* are zero or absent it returns the waiter's own (n, ttl) if one of those is
\* nonzero; it raises ValueError for every other combination.
C10_CheckArgs ==
    Called =>
        IF ExactlyOneSet(arg_n, arg_ttl)
        THEN budget = CheckOk(Norm(arg_n), Norm(arg_ttl))
        ELSE IF NeitherSet(arg_n, arg_ttl) /\ (self_n # 0 \/ self_ttl # 0)
             THEN budget = CheckOk(self_n, self_ttl)
             ELSE budget.err = "ValueError"

C10_Witness ==
    /\ Called
    /\ arg_n = NoneArg /\ arg_ttl = 2
    /\ self_n = 1
    /\ budget = CheckOk(0, 2)

\* C11: _check_args given neither n nor ttl (both absent or zero) returns the
\* waiter's own (n, ttl) if one of them is nonzero, and raises ValueError,
\* before any attempt, only if both of those are zero too.
C11_FallsBackToConfigured ==
    (Called /\ NeitherSet(arg_n, arg_ttl)) =>
        IF self_n # 0 \/ self_ttl # 0
        THEN budget = CheckOk(self_n, self_ttl)
        ELSE /\ budget.err = "ValueError"
             /\ Done
             /\ result = Raise("ValueError")
             /\ outs = << >>

C11_Witness ==
    /\ Called /\ entry = "ctor"
    /\ arg_n = 0 /\ arg_ttl = NoneArg
    /\ self_n = 0 /\ self_ttl = 2
    /\ budget = CheckOk(0, 2)

\* The arguments a waiter's constructor must refuse: n and ttl both nonzero,
\* or a negative n, ttl or pause.
InvalidCtor(c) ==
    \/ c[1] # 0 /\ Truthy(c[2])
    \/ c[1] < 0
    \/ c[2] # NoneArg /\ c[2] < 0
    \/ c[3] < 0

\* C12: a waiter's constructor fails with ValueError for n and ttl both
\* nonzero and for a negative n, ttl or pause, so every waiter it has built
\* (directly or inside retried) has n >= 0, ttl >= 0, pause >= 0 and at most
\* one of n and ttl nonzero.
C12_ConstructorRejectsInvalid ==
    /\ (entry \in {"ctor", "retried"} /\ kind # "none") =>
          /\ self_n >= 0 /\ self_ttl >= 0 /\ self_pause >= 0
          /\ ~(self_n # 0 /\ self_ttl # 0)
    /\ ctor # << >> =>
          /\ InvalidCtor(ctor)
          /\ kind = "none"
          /\ Done
          /\ result = Raise("ValueError")
          /\ outs = << >>

C12_Witness ==
    /\ entry = "ctor" /\ kind = "none" /\ Done
    /\ ctor = <<0, 1, -1>>
    /\ result = Raise("ValueError")

\* C13: when ExceptionRetryElementsWaiter.wait makes no attempt (its loop
\* condition is false on entry) it fails with the RuntimeError 'Waiter was
\* never run' carrying the resolved n and ttl, which is neither TimeOutError
\* nor a recognized kind; the operation and update are never called.
C13_NeverRanRuntimeError ==
    (kind = EREW /\ Done /\ budget.err = "none" /\ outs = << >>) =>
        /\ result = Raise("RuntimeError")
        /\ detail = <<budget.n, budget.ttl>>
        /\ result.val \notin exceptions \cup {"TimeOutError"}
        /\ updates = 0
        /\ log = << >>

C13_Witness ==
    /\ kind = EREW /\ Done /\ entry = "override"
    /\ arg_n = 0 /\ arg_ttl = 0
    /\ outs = << >>
    /\ result = Raise("RuntimeError")
    /\ detail = <<-1, -1>>

\* The ttl retried resolved for its call.
ResolvedTtl == RetriedTtl(ret_args.ttl, ret_args.cfg)

\* C18: retried with a resolved ttl of zero (or none) invokes the operation
\* exactly once and builds no waiter: whatever the operation did is the
\* outcome, nothing sleeps and the collection is not updated.
C18_ZeroTtlRunsOnce ==
    (entry = "retried" /\ ~Truthy(ResolvedTtl)) =>
        /\ kind = "none"
        /\ pc \in {"direct", "done"}
        /\ sleeps = << >>
        /\ updates = 0
        /\ items = ret_args.items
        /\ Len(outs) <= 1
        /\ Done => Len(outs) = 1 /\ result = outs[1]

C18_Witness ==
    /\ entry = "retried" /\ Done
    /\ ret_args.ttl = 0 /\ ret_args.update
    /\ outs = <<Raise("WebDriverException")>>
    /\ result = Raise("WebDriverException")

\* C19: retried with update=false and a nonzero ttl retries the operation on
\* recognized failures through ExceptionRetryWaiter, never calling update:
\* the collection's items are what they were at the call.
C19_NoUpdateWithoutFlag ==
    (entry = "retried" /\ ~ret_args.update /\ Truthy(ResolvedTtl)) =>
        /\ kind \in {"none", ERW}
        /\ updates = 0
        /\ \A i \in 1..Len(log) : log[i].ev # "update"
        /\ items = ret_args.items
        /\ \A i \in 1..(Len(outs) - 1) :
              outs[i] = Raise("WebDriverException")
        /\ Len(sleeps) >= Len(outs) - 1

C19_Witness ==
    /\ entry = "retried" /\ ~ret_args.update /\ Done
    /\ kind = ERW
    /\ ret_args.items # << >>
    /\ Len(outs) = 2
    /\ outs[1] = Raise("WebDriverException")
    /\ result = Return("v1")

\* C28 as stated: in ExceptionRetryElementsWaiter.wait every sleep is preceded
\* by an update of the bound collection, and every attempt after the first is
\* preceded by an update made since the attempt before, whatever the items of
\* the collection.
C28_AsStated ==
    (kind = EREW /\ Called /\ entry = "ctor") =>
        \A i \in 1..Len(log) :
            /\ log[i].ev = "sleep" => (i > 1 /\ log[i - 1].ev = "update")
            /\ (log[i].ev = "call" /\ i > 1) =>
                  \E j \in 1..(i - 1) :
                      /\ log[j].ev = "update"
                      /\ \A m \in (j + 1)..(i - 1) : log[m].ev # "call"

Open == [type |-> "open", val |-> "open"]

\* An entry of the trace of a call: an attempt ("call") with the argument it
\* was given and what it did, a "sleep" with the pause slept, an "update"
\* with the number of items it left, a waiter handed its budget ("waiter",
\* "direct" when retried calls the operation itself); at is the clock when
\* it ended.
Did(e, t, a, k, o) == [ev |-> e, at |-> t, arg |-> a, num |-> k, o |-> o]

\* The argument of an attempt: none (fn()), the collection (fn(self.elements))
\* or None.
NoArgument == "()"
SelfArgument == "self"
NoneArgument == "None"

\* items: a collection of k nodes.
ItemsOf(k) == [i \in 1..k |-> "node"]

\* The schedules: at its i-th attempt the operation does o and takes d ticks.
Steps(outcomes, durs) == [o : outcomes, d : durs]
Schedules(len, steps) == [1..len -> steps]

\* The state of a call under way: the clock, the next entry of the schedule,
\* the items of the collection and what has happened so far.
Started(t, its) == [t |-> t, i |-> 1, items |-> its, trace |-> << >>]
Ended(st, r) == [st |-> st, result |-> r]

\* An attempt that is given a and does o, in the state after it.
AttemptDoing(sched, st, a, o) ==
    [st EXCEPT !.t = @ + sched[st.i].d,
               !.i = @ + 1,
               !.trace = Append(@, Did("call", st.t + sched[st.i].d, a, 0,
                                       o))]

\* n -= 1; try: return fn(...): the attempt, in the state after it.
Attempt(sched, st, a) == AttemptDoing(sched, st, a, sched[st.i].o)

\* time.sleep(pause)
Slept(st, p) ==
    [st EXCEPT !.t = @ + p,
               !.trace = Append(@, Did("sleep", st.t + p, "", p, NoResult))]

\* self.elements.update(): the resolver is evaluated again and the items
\* become what the document holds now (after).
Updated(st, after) ==
    [st EXCEPT !.items = after,
               !.trace = Append(@, Did("update", st.t, SelfArgument,
                                       Len(after), NoResult))]

\* ExceptionRetryWaiter.wait from "while True:" on.
RECURSIVE ErwLoop(_, _, _, _, _, _)
ErwLoop(sched, st, k, e, p, excs) ==
    IF st.i > Len(sched) THEN Ended(st, Open)
    ELSE LET o == sched[st.i].o
             st1 == Attempt(sched, st, NoArgument)
         IN IF ~Handled(excs, o) THEN Ended(st1, WaitResult(ERW, o))
            ELSE IF Remaining(st1.t, e, k - 1)
                 THEN ErwLoop(sched, Slept(st1, p), k - 1, e, NextPause(p),
                              excs)
                 ELSE Ended(st1, o)

\* ExceptionRetryElementsWaiter.wait from its while on; efr is exc_from_run.
RECURSIVE ErewLoop(_, _, _, _, _, _, _, _)
ErewLoop(sched, st, k, e, p, excs, efr, after) ==
    IF ~Remaining(st.t, e, k) THEN Ended(st, ExhaustedResult(EREW, efr))
    ELSE IF st.i > Len(sched) THEN Ended(st, Open)
    ELSE LET o == sched[st.i].o
             st1 == Attempt(sched, st, SelfArgument)
             st2 == Slept(st1, p)
             st3 == IF ShouldUpdate(EREW, st2.items)
                    THEN Updated(st2, after) ELSE st2
         IN IF ~Handled(excs, o) THEN Ended(st1, WaitResult(EREW, o))
            ELSE ErewLoop(sched, st3, k - 1, e, NextPause(p), excs,
                          CapturedExc(efr, o.val), after)

\* wait(fn, n, ttl) of a waiter of class w constructed with (sn, sttl, p):
\* _check_args, the deadline, then the loop.
WaitRun(w, sched, st, sn, sttl, n0, ttl0, p, excs, after) ==
    LET b == check_args(sn, sttl, n0, ttl0)
    IN IF b.err # "none" THEN Ended(st, Raise(b.err))
       ELSE IF w = ERW
            THEN ErwLoop(sched, st, b.n, EndTime(st.t, b.ttl), p, excs)
            ELSE ErewLoop(sched, st, b.n, EndTime(st.t, b.ttl), p, excs,
                          "none", after)

\* The attempts of a call and what they did.
Attempts(trace) == SelectSeq(trace, LAMBDA x : x.ev = "call")
SleepsOf(trace) == SelectSeq(trace, LAMBDA x : x.ev = "sleep")
UpdatesOf(trace) == SelectSeq(trace, LAMBDA x : x.ev = "update")

\* The kinds the two waiters are constructed to recognize here.
BothExceptions == {"TypeError", "ValueError"}

\* ExceptionRetryWaiter.wait and ExceptionRetryElementsWaiter.wait called with
\* the same budget and pause on operations that do the same at each attempt.
WaitBoth ==
    /\ UNCHANGED <<runVars, elemVars>>
    /\ NoCall
    /\ \E b \in {<<k, NoneArg>> : k \in 1..MaxN}
                  \cup {<<NoneArg, t>> : t \in 1..MaxTtl},
          p \in 0..MaxPause,
          k \in {0, 1},
          sched \in Schedules(MaxCalls,
                              Steps({Return("v1")} \cup {Raise(x) : x \in Kinds},
                                    {0, MaxDur})) :
          LET a == WaitRun(ERW, sched, Started(0, ItemsOf(k)), 0, 0, b[1], b[2],
                           p,
                           BothExceptions, ItemsOf(k))
              c == WaitRun(EREW, sched, Started(0, ItemsOf(k)), 0, 0, b[1], b[2],
                           p,
                           BothExceptions, ItemsOf(k))
          IN op' = [name |-> "wait", n |-> b[1], ttl |-> b[2], pause |-> p,
                    erw |-> [trace |-> a.st.trace, result |-> a.result],
                    erew |-> [trace |-> c.st.trace, result |-> c.result]]

\* The kinds the waiters of SeElements.retried recognize.
WebDriverExceptions == {"WebDriverException"}

\* SeElements.retried(fn, update, ttl) on a collection whose config holds c:
\* through a waiter constructed with ttl when the resolved ttl is truthy,
\* else the operation is called once.
RetriedRun(sched, st, upd, t, c, after) ==
    LET rttl == RetriedTtl(t, c)
        w == RetriedWaiter(upd, rttl)
        st0 == [st EXCEPT !.trace = Append(@, Did("retried", st.t, w, rttl,
                                                  NoResult))]
    IN IF w = "none"
       THEN IF st.i > Len(sched) THEN Ended(st0, Open)
            ELSE Ended(Attempt(sched, st0,
                               IF upd THEN SelfArgument ELSE NoArgument),
                       sched[st.i].o)
       ELSE IF WaiterInitError(0, rttl, DEFAULT_SLEEP_TIME) # "none"
            THEN Ended(st0, Raise(WaiterInitError(0, rttl,
                                                  DEFAULT_SLEEP_TIME)))
            ELSE WaitRun(w, sched, st0, 0, rttl, 0, NoneArg,
                         DEFAULT_SLEEP_TIME, WebDriverExceptions, after)

\* What the operations of a browser do at an attempt: return a value, fail
\* with the kind retried recognizes, or fail otherwise.
DriverOutcomes ==
    {Return("v1"), Raise("WebDriverException"), Raise("TypeError")}

\* The ttl of the shared config when an operation reads it.
OpConfigTtls == {DEFAULT_TTL, 0}

\* A call of retried(fn, update, ttl).
Retry ==
    /\ UNCHANGED <<runVars, elemVars>>
    /\ NoCall
    /\ \E upd \in BOOLEAN, t \in {NoneArg, -1, 0, MaxTtl},
          c \in OpConfigTtls, k \in {0, 1},
          sched \in Schedules(MaxSched, Steps(DriverOutcomes, {0, MaxDur})) :
          LET r == RetriedRun(sched, Started(0, ItemsOf(k)), upd, t, c,
                              ItemsOf(k))
          IN op' = [name |-> "retried", update |-> upd, ttl |-> t, cfg |-> c,
                    trace |-> r.st.trace, result |-> r.result]

\* The wrapper run hands to retried, lambda e: fn: called with one argument
\* it returns the function itself, called with none it fails.
FnObject == "fn"
WrapperCall(a) == IF a = NoArgument THEN Raise("TypeError")
                  ELSE Return(FnObject)

\* SeElements.run(fn, ttl): retried(lambda e: fn, update=False, ttl=ttl).
\* todo is what fn would do were it invoked.
Run ==
    /\ UNCHANGED <<runVars, elemVars>>
    /\ NoCall
    /\ \E t \in {NoneArg, -1, 0, MaxTtl}, c \in OpConfigTtls,
          todo \in DriverOutcomes :
          LET r == RetriedRun([i \in 1..MaxSched |->
                                 [o |-> WrapperCall(NoArgument), d |-> 0]],
                              Started(0, ItemsOf(1)), FALSE, t, c, ItemsOf(1))
          IN op' = [name |-> "run", ttl |-> t, cfg |-> c, todo |-> todo,
                    trace |-> r.st.trace, result |-> r.result]

\* Elements.until, Elements.insist: ttl = ttl if ttl else self.ttl
UntilTtl(t, c) == IF Truthy(t) THEN t ELSE c

\* ConditionWaiter(self).until(fn, ttl): ttl = ttl if ttl else self.ttl, the
\* waiter constructed with its default ttl.
ConditionWaiterTtl(t) == IF Truthy(t) THEN t ELSE DEFAULT_TTL

\* while time.time() - start_time < ttl
UntilRemaining(t, st0, budgetTtl) == t - st0 < budgetTtl

\* Slip: the refresh of ConditionWaiter.until under "if self.elements:".
UntilUpdatesIfTruthy(its) == ElementsTruthy(its)

\* ConditionWaiter.until refreshes the collection after every false
\* evaluation, whatever its items.
UntilUpdates(its) == TRUE

\* Slip: find(wait=True) satisfied by any collection.
FoundSomeAlways(its) == Len(its) >= 0

\* The predicate of find(wait=True): lambda e: len(e) > 0
FoundSome(its) == Len(its) > 0

\* What the predicate does at the next attempt: the predicate of find is
\* computed from the items, another one does what the schedule says.
PredicateOutcome(pred, sched, st) ==
    IF pred = "len(e) > 0"
    THEN Return(IF FoundSome(st.items) THEN "True" ELSE "False")
    ELSE sched[st.i].o

\* ConditionWaiter.until from its while on; the update after the i-th
\* attempt leaves the items the schedule gives.
RECURSIVE UntilLoop(_, _, _, _, _)
UntilLoop(sched, st, st0, budgetTtl, pred) ==
    IF ~UntilRemaining(st.t, st0, budgetTtl)
    THEN Ended(st, Raise("TimeOutError"))
    ELSE IF st.i > Len(sched) THEN Ended(st, Open)
    ELSE LET o == PredicateOutcome(pred, sched, st)
             st1 == AttemptDoing(sched, st, SelfArgument, o)
             st2 == Slept(st1, DEFAULT_SLEEP_TIME)
             st3 == IF UntilUpdates(st2.items)
                    THEN Updated(st2, ItemsOf(sched[st.i].its)) ELSE st2
         IN IF o.type = "raise" THEN Ended(st1, o)
            ELSE IF o = Return("True") THEN Ended(st1, Return(ElementsRef))
            ELSE UntilLoop(sched, st3, st0, budgetTtl, pred)

\* Elements.until(fn, ttl) on a collection whose config holds c.
UntilRun(sched, st, t, c, pred) ==
    UntilLoop(sched, st, st.t, ConditionWaiterTtl(UntilTtl(t, c)), pred)

\* What a predicate does at an evaluation: it holds, it does not, it raises.
PredicateOutcomes == {Return(b) : b \in Truth} \cup {Raise("TypeError")}

\* The budgets an operation is called with.
OpTtls == {NoneArg, -1, 0, MaxTtl}

\* A call of until(fn, ttl).
Until ==
    /\ UNCHANGED <<runVars, elemVars>>
    /\ NoCall
    /\ \E t \in OpTtls, c \in OpConfigTtls, k \in {0, 1} :
       \E sched \in Schedules(MaxSched, [o : PredicateOutcomes,
                                          d : {0, MaxDur}, its : {k}]) :
          LET r == UntilRun(sched, Started(0, ItemsOf(k)), t, c, "fn")
          IN op' = [name |-> "until", ttl |-> t, cfg |-> c,
                    budget |-> ConditionWaiterTtl(UntilTtl(t, c)),
                    before |-> ItemsOf(k), items |-> r.st.items,
                    trace |-> r.st.trace, result |-> r.result]

\* Elements.insist(fn, ttl): until, the TimeOutError swallowed, then
\* assert fn(retval); return self. retval is what until returned, None when
\* it timed out.
InsistRun(sched, st, t, c) ==
    LET r == UntilRun(sched, st, t, c, "fn")
        timedOut == r.result = Raise("TimeOutError")
    IN IF r.result.type = "raise" /\ ~timedOut THEN r
       ELSE IF r.result = Open \/ r.st.i > Len(sched) THEN Ended(r.st, Open)
       ELSE LET o == sched[r.st.i].o
                st1 == Attempt(sched, r.st, IF timedOut THEN NoneArgument
                                            ELSE SelfArgument)
            IN IF o.type = "raise" THEN Ended(st1, o)
               ELSE IF o = Return("True") THEN Ended(st1, Return(ElementsRef))
               ELSE Ended(st1, Raise("AssertionError"))

\* A call of insist(fn, ttl).
Insist ==
    /\ UNCHANGED <<runVars, elemVars>>
    /\ NoCall
    /\ \E t \in OpTtls, c \in OpConfigTtls, k \in {0, 1} :
       \E sched \in Schedules(MaxSched, [o : PredicateOutcomes,
                                          d : {0, MaxDur}, its : {k}]) :
          LET r == InsistRun(sched, Started(0, ItemsOf(k)), t, c)
          IN op' = [name |-> "insist", ttl |-> t, cfg |-> c,
                    budget |-> ConditionWaiterTtl(UntilTtl(t, c)),
                    before |-> ItemsOf(k), items |-> r.st.items,
                    trace |-> r.st.trace, result |-> r.result]

\* SeElements.find: ttl = ttl if ttl is not None else self.ttl
FindTtl(t, c) == IF t # NoneArg THEN t ELSE c

\* SeElements.find(selector, wait, ttl) when the driver finds k nodes at
\* first: the new collection is resolved by its constructor, which also
\* fills in the ttl of the shared config; with wait it is then waited on.
FindRun(sched, st, wait, t, c) ==
    IF wait
    THEN UntilRun(sched, st, FindTtl(t, c), InitTtl(c), "len(e) > 0")
    ELSE Ended(st, Return(ElementsRef))

\* A call of find(selector, wait, ttl).
FindWait ==
    /\ UNCHANGED <<runVars, elemVars>>
    /\ NoCall
    /\ \E wait \in BOOLEAN, t \in OpTtls, c \in OpConfigTtls, k \in {0, 1},
          sched \in Schedules(MaxSched, [o : {NoResult}, d : {0, MaxDur},
                                         its : {0, 1}]) :
          LET r == FindRun(sched, Started(0, ItemsOf(k)), wait, t, c)
          IN op' = [name |-> "find", wait |-> wait, ttl |-> t, cfg |-> c,
                    before |-> ItemsOf(k), items |-> r.st.items,
                    trace |-> r.st.trace, result |-> r.result]

\* Elements.foreach: ttl = ttl if ttl else self.ttl
ForeachTtl(t, c) == IF Truthy(t) THEN t ELSE c

\* The loop variable of foreach, self[idx], a child collection of one item.
ElementArgument == "element"

\* Slip: the operation applied to the loop variable.
ForeachReceiverElement == ElementArgument

\* The collection foreach applies the operation to at each index:
\* self.with_update(fn, ttl=ttl), the loop variable unused.
ForeachReceiver == SelfArgument

\* Slip: the elapsed time subtracted from the budget foreach began with.
ForeachBudgetFromStart(t0, t, elapsed) ==
    IF Truthy(t) THEN t0 - elapsed ELSE t

\* if ttl: ttl = ttl - (time.time() - start_time), ttl being what the
\* iteration before left (t0 is the budget foreach began with).
ForeachBudget(t0, t, elapsed) == IF Truthy(t) THEN t - elapsed ELSE t

\* ElementsIterator.next: idx < len(self.elements.items), read at each step.
IteratorHasNext(idx, its) == idx < Len(its)

\* self.with_update(fn, ttl=ttl) of a SeElements: the operation applied to
\* the collection through retried with update.
WithUpdate(sched, st, t, c, after) == RetriedRun(sched, st, TRUE, t, c, after)

\* Elements.foreach from its for on: idx counts the items done, t the budget
\* left, c the ttl of the config, vals the results so far. The iterator
\* builds self[idx], whose constructor fills in the ttl of the config.
RECURSIVE ForeachLoop(_, _, _, _, _, _, _, _, _, _)
ForeachLoop(sched, st, idx, t0, t, st0, p, c, after, vals) ==
    IF ~IteratorHasNext(idx, st.items)
    THEN [st |-> st, result |-> Return("retvals"), retvals |-> vals]
    ELSE LET t1 == ForeachBudget(t0, t, st.t - st0)
             st1 == [st EXCEPT !.trace =
                        Append(@, Did("element", st.t, ForeachReceiver, idx,
                                      NoResult))]
             r == WithUpdate(sched, st1, t1, InitTtl(c), after)
         IN IF r.result.type # "return"
            THEN [st |-> r.st, result |-> r.result, retvals |-> vals]
            ELSE ForeachLoop(sched,
                             IF Truthy(p) THEN Slept(r.st, p) ELSE r.st,
                             idx + 1, t0, t1, st0, p, InitTtl(c), after,
                             Append(vals, r.result.val))

\* Elements.foreach(fn, return_results, pause, ttl).
ForeachRun(sched, st, rr, p, t, c, after) ==
    LET r == ForeachLoop(sched, st, 0, ForeachTtl(t, c), ForeachTtl(t, c),
                         st.t, p, c, after, << >>)
    IN IF r.result.type = "return" /\ ~rr
       THEN [r EXCEPT !.result = Return(ElementsRef)]
       ELSE r

\* What an operation does at an attempt in a call of foreach.
ForeachOutcomes ==
    {Return(v) : v \in Values} \cup {Raise("WebDriverException")}

\* A call of foreach(fn, return_results, pause, ttl) on a collection of k
\* items that a refresh leaves with a items.
Foreach ==
    /\ UNCHANGED <<runVars, elemVars>>
    /\ NoCall
    /\ \E rr \in BOOLEAN, p \in 0..MaxPause, t \in {NoneArg, MaxTtl},
          c \in OpConfigTtls, k \in 0..MaxLen, a \in 0..MaxLen,
          sched \in Schedules(MaxSched, Steps(ForeachOutcomes, {0})) :
          LET r == ForeachRun(sched, Started(0, ItemsOf(k)), rr, p, t, c,
                              ItemsOf(a))
          IN op' = [name |-> "foreach", return_results |-> rr, pause |-> p,
                    ttl |-> t, cfg |-> c, budget |-> ForeachTtl(t, c),
                    before |-> ItemsOf(k), items |-> r.st.items,
                    trace |-> r.st.trace, result |-> r.result,
                    retvals |-> r.retvals]

NextOps ==
    \/ WaitBoth
    \/ Foreach
    \/ Until
    \/ Insist
    \/ FindWait
    \/ Retry
    \/ Run

SpecOps == Init /\ [][NextOps]_vars

\* ---- claims about whole calls ----
Closed(r) == r.result # Open
BothClosed == op.name = "wait" /\ Closed(op.erw) /\ Closed(op.erew)
WaitCountMode == op.name = "wait" /\ op.n # NoneArg
WaitTimeMode == op.name = "wait" /\ op.ttl # NoneArg

C27_AsStated ==
    op.name = "retried" =>
        LET sl == SleepsOf(op.trace)
        IN \A i \in 1..Len(sl) :
              /\ i = 1 => sl[i].num = DEFAULT_SLEEP_TIME
              /\ i > 1 => sl[i].num = Min(2 * sl[i - 1].num,
                                          4 * DEFAULT_SLEEP_TIME)
              /\ sl[i].num <= 4 * DEFAULT_SLEEP_TIME

\* C26 as stated: run(fn, ttl) invokes fn, again after the failures retried
\* recognizes while ttl lasts, and returns what fn returned.
C26_AsStated ==
    (op.name = "run" /\ op.todo.type = "return"
        /\ RetriedTtl(op.ttl, op.cfg) >= 0) =>
        op.result = op.todo

OpClosed == op.result # Open
HeldAt(i) == op.trace[i].ev = "call" /\ op.trace[i].o = Return("True")
FailedAt(i) == op.trace[i].ev = "call" /\ op.trace[i].o = Return("False")

\* C23: until(predicate, ttl) returns the collection itself at the first
\* evaluation at which the predicate holds; after every evaluation that is
\* false it pauses and refreshes the collection, whatever its items, before
\* it evaluates again; and when the budget runs out with no evaluation having
\* held it fails with TimeOutError.
C23_UntilWaits ==
    (op.name = "until" /\ OpClosed) =>
        /\ \A i \in 1..Len(op.trace) :
              /\ FailedAt(i) =>
                    /\ i + 2 <= Len(op.trace)
                    /\ op.trace[i + 1].ev = "sleep"
                    /\ op.trace[i + 2].ev = "update"
              /\ HeldAt(i) => i = Len(op.trace)
              /\ op.trace[i].ev = "call" => op.trace[i].arg = SelfArgument
        /\ Len(UpdatesOf(op.trace))
              = Cardinality({i \in 1..Len(op.trace) : FailedAt(i)})
        /\ op.result = Return(ElementsRef) <=>
              (op.trace # << >> /\ HeldAt(Len(op.trace)))
        /\ op.result = Raise("TimeOutError") <=>
              /\ \A i \in 1..Len(op.trace) :
                    op.trace[i].ev = "call" => FailedAt(i)
              /\ op.trace = << >> \/ op.trace[Len(op.trace)].ev = "update"
        /\ op.result = Raise("TimeOutError") =>
              (IF op.trace = << >> THEN 0 ELSE op.trace[Len(op.trace)].at)
                  >= op.budget
        /\ op.result.type = "raise" => op.result.val # "AssertionError"
C23_Witness ==
    /\ op.name = "until" /\ op.ttl = MaxTtl
    /\ op.before = << >>
    /\ Len(Attempts(op.trace)) = 2
    /\ Len(UpdatesOf(op.trace)) = 1
    /\ op.result = Return(ElementsRef)

\* The evaluations of the predicate on the collection, and the last
\* evaluation of a call.
OnCollection(i) == op.trace[i].ev = "call" /\ op.trace[i].arg = SelfArgument
LastAttempt == Attempts(op.trace)[Len(Attempts(op.trace))]

\* C24 as stated: insist on a predicate that does not come true on the
\* collection within the budget then evaluates the predicate on the
\* collection itself and fails with an assertion failure, never with
\* TimeOutError or another kind of error; when the predicate holds it returns
\* the collection itself.
C24_AsStated ==
    (op.name = "insist" /\ OpClosed) =>
        /\ op.result # Raise("TimeOutError")
        /\ (\A i \in 1..Len(op.trace) : OnCollection(i) => FailedAt(i)) =>
              /\ Attempts(op.trace) # << >>
              /\ LastAttempt.arg = SelfArgument
              /\ op.result = Raise("AssertionError")
        /\ op.result = Return(ElementsRef) =>
              /\ LastAttempt.arg = SelfArgument
              /\ LastAttempt.o = Return("True")

ElementsOf(trace) == SelectSeq(trace, LAMBDA x : x.ev = "element")
BudgetsOf(trace) == SelectSeq(trace, LAMBDA x : x.ev = "retried")
Returned(trace) ==
    SelectSeq(trace, LAMBDA x : x.ev = "call" /\ x.o.type = "return")

\* C21 as stated: foreach on a collection of k items applies the operation,
\* through retried with update, to each of the k child collections of one
\* item in index order; with return_results it returns the list of the k
\* results in that order, otherwise the collection itself, also when some
\* attempts fail with a recognized kind and are retried.
C21_AsStated ==
    (op.name = "foreach" /\ op.result.type = "return") =>
        /\ Len(ElementsOf(op.trace)) = Len(op.before)
        /\ \A j \in 1..Len(ElementsOf(op.trace)) :
              /\ ElementsOf(op.trace)[j].num = j - 1
              /\ ElementsOf(op.trace)[j].arg = ElementArgument
        /\ op.return_results =>
              /\ op.result = Return("retvals")
              /\ Len(op.retvals) = Len(op.before)
              /\ op.retvals = [j \in 1..Len(op.retvals) |->
                                  Returned(op.trace)[j].o.val]
        /\ ~op.return_results => op.result = Return(ElementsRef)

\* C22 as stated: the budget foreach hands to retried for an element is its
\* ttl less the time elapsed since foreach began, pauses included.
C22_AsStated ==
    (op.name = "foreach" /\ Truthy(op.budget)) =>
        \A j \in 1..Len(BudgetsOf(op.trace)) :
            BudgetsOf(op.trace)[j].num = op.budget - BudgetsOf(op.trace)[j].at

\* C34 as stated: in a call of foreach with a ttl that is not negative, the
\* budget handed to retried for each element is never negative, so foreach
\* never fails with the ValueError of the waiter's constructor.
C34_AsStated ==
    (op.name = "foreach" /\ (op.ttl = NoneArg \/ op.ttl >= 0)) =>
        /\ \A j \in 1..Len(BudgetsOf(op.trace)) :
              BudgetsOf(op.trace)[j].num >= 0
        /\ op.result # Raise("ValueError")

\* The driver's matches under each of the items its, in the order of its.
MatchesInOrder(its, d) == Flatten([k \in 1..Len(its) |-> d[its[k]]])

\* C36 as stated: when the resolver of a collection built by find has just
\* been evaluated, the items of the collection are the driver's matches under
\* each item of its parent, concatenated in the order of the parent's items,
\* duplicates kept.
C36_AsStated ==
    (/\ lastOp.op \in {"find", "update", "items"}
     /\ lastOp.err = "none"
     /\ lastOp.order # << >>
     /\ colls[Last(lastOp.order)].fn.op = "find") =>
        LET c == Last(lastOp.order)
        IN colls[c].items = MatchesInOrder(colls[colls[c].context].items, dom)

\* The budgets wait cannot resolve: n and ttl both given, a negative n or
\* ttl, or neither given on a waiter that has neither of its own.
Unresolvable ==
    \/ ~NonNeg(arg_n) \/ ~NonNeg(arg_ttl)
    \/ Truthy(arg_n) /\ Truthy(arg_ttl)
    \/ NeitherSet(arg_n, arg_ttl) /\ self_n = 0 /\ self_ttl = 0

\* C31: a call of wait, on any of the three waiters, whose budget cannot be
\* resolved ends at once with ValueError: the operation or predicate is never
\* invoked, nothing sleeps and the bound collection is not updated.
C31_RefusedBeforeAnyAttempt ==
    (Called /\ Unresolvable) =>
        /\ Done
        /\ result = Raise("ValueError")
        /\ outs = << >>
        /\ sleeps = << >>
        /\ updates = 0
        /\ log = << >>
        /\ now = start
C31_Witness ==
    /\ kind = CEW /\ Called /\ Done
    /\ self_ttl = 2
    /\ arg_n = 1 /\ arg_ttl = 1
    /\ items # << >>
    /\ result = Raise("ValueError")
    /\ log = << >>

\* The evaluations of the log.
Calls == {i \in 1..Len(log) : log[i].ev = "call"}

\* C37: ConditionElementsWaiter.wait tests its budget between a refresh and
\* the next evaluation: when the budget has run out after a refresh it fails
\* with TimeOutError without evaluating the predicate on the items the refresh
\* left, the last evaluation having been false on the items before it.
C37_NoEvaluationAfterLastRefresh ==
    (kind = CEW /\ Done /\ budget.err = "none") =>
        /\ (log # << >> /\ LastEvent = "update") =>
              /\ result = Raise("TimeOutError")
              /\ Last(outs) = Return("False")
              /\ Cardinality(Calls) = Len(outs)
              /\ updates = Len(outs)
        /\ (result = Raise("TimeOutError") /\ log # << >>) =>
              LastEvent = "update"
C37_Witness ==
    /\ kind = CEW /\ Done /\ TimeMode
    /\ outs = <<Return("False")>>
    /\ updates = 1
    /\ LastEvent = "update"
    /\ items # << >>
    /\ now >= etime
    /\ result = Raise("TimeOutError")

\* C33: when the resolver of a collection raises during update, the items of
\* the collection stay what its last successful resolution left; an update
\* changes the items of the collections whose resolver returned, as a whole,
\* and of no other.
C33_FailedUpdateKeepsItems ==
    [][(lastOp'.op = "update" /\ Len(colls') = Len(colls)) =>
          /\ lastOp'.err # "none" =>
                colls'[lastOp'.target] = colls[lastOp'.target]
          /\ \A c \in 1..Len(colls) :
                IF \E k \in 1..Len(lastOp'.order) : lastOp'.order[k] = c
                THEN LET ctx == colls[c].context
                     IN colls'[c].items =
                           Resolve(colls[c].fn,
                                   IF ctx = 0 THEN << >>
                                   ELSE colls'[ctx].items, dom).items
                ELSE colls'[c] = colls[c]]_vars
C33_Witness ==
    /\ lastOp.op = "update" /\ lastOp.err = "IndexError"
    /\ ~cfg_lazy
    /\ colls[lastOp.target].items # << >>
    /\ colls[lastOp.target].fn.op = "get"
    /\ ~InRange(colls[lastOp.target].fn.i,
                colls[colls[lastOp.target].context].items)

\* C35 as stated: update(propagate=true) on a collection that has a parent
\* re-resolves the parent, replacing its items, while every other child of
\* that parent keeps its own items until it is itself updated.
C35_AsStated ==
    [][(/\ lastOp'.op = "update" /\ lastOp'.propagate
        /\ lastOp'.err = "none" /\ lastOp'.context # 0
        /\ Len(colls') = Len(colls)) =>
          /\ Occurrences(lastOp'.order, lastOp'.context) >= 1
          /\ colls'[lastOp'.context].items =
                Resolve(colls[lastOp'.context].fn,
                        IF colls[lastOp'.context].context = 0 THEN << >>
                        ELSE colls'[colls[lastOp'.context].context].items,
                        dom).items
          /\ \A sib \in 1..Len(colls) :
                (sib # lastOp'.target
                    /\ colls[sib].context = lastOp'.context) =>
                    colls'[sib] = colls[sib]]_vars

\* Whether reading c.ttl reads the config of the root.
ReadsRootConfig(c) == colls[c].config = colls[1].config

\* C40: every collection derived from a root by get or a query holds the
\* config of the root, and after ttl is set on any of them every collection
\* reads the value that was set.
C40_OneConfig ==
    [][/\ \A c \in 1..Len(colls') : colls'[c].config = colls'[1].config
       /\ (colls # << >> /\ lastOp' = NoOp /\ dom' = dom) =>
             cfg_ttl' = cfg_given']_vars
C40_Witness ==
    /\ Len(colls) = 3
    /\ colls[2].fn.op = "get" /\ colls[2].context = 1
    /\ colls[3].fn.op = "find" /\ colls[3].context = 2
    /\ \A c \in 1..3 : ReadsRootConfig(c)
    /\ lastOp = NoOp
    /\ cfg_given = 1 /\ cfg_ttl = 1

\* The operations that evaluate a resolver: update itself, the constructors
\* (which call update), and the first reading of a lazy collection.
Resolving == {"update", "new", "get", "find", "items"}

\* C32 as stated: no operation on a collection other than update changes the
\* items of a collection; after indexing, iteration or the methods of the
\* sequence protocol the items are what the last update assigned.
C32_AsStated ==
    [][lastOp'.op \notin Resolving =>
          \A c \in 1..Len(colls) :
              c <= Len(colls') /\ colls'[c].items = colls[c].items]_vars

\* C39: when update raises while a waiter refreshes its collection between
\* two attempts, wait ends at once with that failure, whether or not the
\* waiter recognizes its kind and whatever budget remains: no attempt, sleep
\* or refresh follows.
C39_UpdateFailurePropagates ==
    /\ \A i \in 1..Len(log) : log[i].ev = "update raised" => i = Len(log)
    /\ UpdateRaised =>
          /\ kind \in {EREW, CEW}
          /\ Done
          /\ result.type = "raise" /\ result.val \in UpdateFailures
          /\ log[Len(log) - 1].ev = "sleep"
C39_Witness ==
    /\ kind = EREW /\ CountMode /\ arg_n = 2
    /\ UpdateRaised /\ Done
    /\ Len(outs) = 1
    /\ n > 0
    /\ result = Raise("TypeError")
    /\ "TypeError" \in exceptions

\* wait is in its loop: the budgets are resolved and wait has not ended.
InLoop == pc \in {"body", "loop", "caught", "slept"}

\* The resolved budgets whose attempts are all followed (a budget of
\* DEFAULT_TTL takes more attempts than MaxCalls).
BudgetFollowed == budget.err = "none" /\ budget.n <= MaxN /\ budget.ttl <= MaxTtl

\* C38: a call of wait on any waiter whose pause is positive ends (every
\* invocation, sleep and update returning): with a count budget only, after
\* at most n attempts (the one attempt ExceptionRetryWaiter makes before its
\* first test included); with a time budget, when it gives up, with the clock
\* at or past the deadline.
C38_WaitTerminates ==
    /\ (InLoop /\ self_pause > 0 /\ BudgetFollowed) ~> Done
    /\ [](Called /\ budget.err = "none" /\ budget.ttl <= 0 =>
            Len(outs) <= IF budget.n > 1 THEN budget.n ELSE 1)
    /\ [](Called /\ Done /\ budget.err = "none" /\ budget.ttl > 0
            /\ outs # << >> /\ ~UpdateRaised
            /\ (Recognized(outs[Len(outs)]) \/ outs[Len(outs)] = Return("False")) =>
            now >= etime)
C38_Witness ==
    /\ Done /\ self_pause > 0 /\ BudgetFollowed
    /\ budget.ttl = MaxTtl /\ budget.n = 0
    /\ Len(sleeps) = 2
    /\ now >= etime
    /\ result.type = "raise"
====
